---- MODULE Spec2Model ----
(***************************************************************************)
(* document-tree-editor (src/index.js): the editor keeps an ordered tree   *)
(* of <li> branches in the DOM, derives the ASCII prefix of every branch   *)
(* with editor._prefix, and is driven by mouse events on the name inputs   *)
(* and on the context menu.                                                *)
(*                                                                         *)
(* A branch is an <li> holding an <input> (its name) and, once it has had  *)
(* a child, a <ul> as its last element child.  The model names a branch by *)
(* a number, writes children[b] for the <li> children of b's <ul>, and     *)
(* hasUL[b] for the presence of that <ul>.  Text is a sequence of          *)
(* one-character strings.  CSS class names and pixel positions are not     *)
(* part of the modelled state.                                             *)
(***************************************************************************)
EXTENDS Integers, Sequences, FiniteSets, TLC

VARIABLES
  children,       \* [Elems -> Seq(Nodes)]: the <li> children of each element's list
  hasUL,          \* [Nodes -> BOOLEAN]: the <li>'s lastElementChild is a <ul>
  parentNode,     \* [Nodes -> Elems \cup {null}]: the branch owning the list the <li> is in
  value,          \* [Nodes -> Text]: input.value of the branch's name input
  datasetPrefix,  \* [Nodes -> Text \cup {NoPrefix}]: item.dataset.prefix
  hasListeners,   \* [Nodes -> BOOLEAN]: input.dataset.hasListeners
  clickListener,  \* [Nodes -> BOOLEAN]: input.clickListener is registered for 'click'
  oldClickListeners, \* [Nodes -> BOOLEAN]: an earlier _moveBranch proxy is still registered
  prefix,         \* the four prefix tokens of the prefix object
  delayUpdate,    \* editor.delayUpdate
  inMoveState,    \* editor.inMoveState
  activeBranch,   \* editor.activeBranch
  menuActive,     \* contextMenu.el.className = 'active'
  menuDisplay,    \* addSibling / moveBranch / deleteBranch entries are displayed
  timeout,        \* the timer editor.timeout names is pending
  oldTimeouts,    \* a hide timer that editor.timeout no longer names is pending
  pointer,        \* where the mouse pointer is
  output,         \* output.textContent
  pending,        \* the readEntries calls whose callback has not run yet
  dropped,        \* the folder of the latest folder drop
  drops           \* the number of folder drops so far

vars == <<children, hasUL, parentNode, value, datasetPrefix, hasListeners,
          clickListener, oldClickListeners, prefix, delayUpdate, inMoveState,
          activeBranch, menuActive, menuDisplay, timeout, oldTimeouts, pointer,
          output, pending, dropped, drops>>

---------------------------------------------------------------------------
(* Bounds and names *)

\* <li> elements of a tree handed to the prefix algorithm, the root's included
MaxNodes == 4
\* <li> elements alive at once under the pointer-level controller
MaxBranches == 3
\* <li> elements alive at once in an editing session
MaxEditBranches == 4
\* prefix fields holding another text than their default at once
MaxCustomTokens == 1
\* entries of a dropped folder, the folder included
MaxEntries == 5

Max(a, b) == IF a >= b THEN a ELSE b
Nodes == 0 .. (Max(Max(MaxNodes, MaxEntries), Max(MaxBranches, MaxEditBranches)) - 1)
\* the <li> of input#root (editor.root.parentNode); its <ul> is #listEntry
Root == 0
\* the element of #editor that holds the root <li>
Doc == -1
null == -2
Elems == Nodes \cup {Doc}
\* pointer positions other than a branch's input
Menu == -3
Elsewhere == -4

NoPrefix == <<"undefined">>
NoOutput == <<"unset">>
\* no folder has been dropped yet
NoDrop == [file |-> FALSE, n |-> 0, parent |-> <<>>, isFile |-> {}, fails |-> {}]

Range(s) == {s[i] : i \in 1 .. Len(s)}

Remove(s, x) == SelectSeq(s, LAMBDA y : y # x)

RECURSIVE Flatten(_)
Flatten(ss) == IF ss = <<>> THEN <<>> ELSE Head(ss) \o Flatten(Tail(ss))

Min(S) == CHOOSE x \in S : \A y \in S : x <= y

---------------------------------------------------------------------------
(* The program state as one record, so that a handler is an operator from  *)
(* the state before it to the state after it.                              *)

State ==
  [children |-> children, hasUL |-> hasUL, parentNode |-> parentNode,
   value |-> value, datasetPrefix |-> datasetPrefix,
   hasListeners |-> hasListeners, clickListener |-> clickListener,
   oldClickListeners |-> oldClickListeners, prefix |-> prefix,
   delayUpdate |-> delayUpdate, inMoveState |-> inMoveState,
   activeBranch |-> activeBranch, menuActive |-> menuActive,
   menuDisplay |-> menuDisplay, timeout |-> timeout,
   oldTimeouts |-> oldTimeouts, pointer |-> pointer, output |-> output,
   pending |-> pending, dropped |-> dropped, drops |-> drops]

Becomes(S) ==
  /\ children' = S.children
  /\ hasUL' = S.hasUL
  /\ parentNode' = S.parentNode
  /\ value' = S.value
  /\ datasetPrefix' = S.datasetPrefix
  /\ hasListeners' = S.hasListeners
  /\ clickListener' = S.clickListener
  /\ oldClickListeners' = S.oldClickListeners
  /\ prefix' = S.prefix
  /\ delayUpdate' = S.delayUpdate
  /\ inMoveState' = S.inMoveState
  /\ activeBranch' = S.activeBranch
  /\ menuActive' = S.menuActive
  /\ menuDisplay' = S.menuDisplay
  /\ timeout' = S.timeout
  /\ oldTimeouts' = S.oldTimeouts
  /\ pointer' = S.pointer
  /\ output' = S.output
  /\ pending' = S.pending
  /\ dropped' = S.dropped
  /\ drops' = S.drops

---------------------------------------------------------------------------
(* DOM helpers *)

\* branch and every branch beneath it (branch.querySelectorAll reaches their inputs)
RECURSIVE Subtree(_, _)
Subtree(S, branch) ==
  IF branch = null THEN {}
  ELSE {branch} \cup UNION {Subtree(S, S.children[branch][i]) :
                              i \in 1 .. Len(S.children[branch])}

\* the outermost element reached from b by parentNode
RECURSIVE Top(_, _)
Top(S, b) ==
  IF b = null \/ b = Doc THEN b
  ELSE IF S.parentNode[b] = null THEN b
  ELSE Top(S, S.parentNode[b])

\* the branches that are in the document
InDocument(S) == Subtree(S, Doc) \ {Doc}

\* the branches script or the document can still reach: those in the page,
\* those around editor.activeBranch, those a pending callback will add to
Live(S) ==
  InDocument(S) \cup Subtree(S, Root)
    \cup (Subtree(S, Top(S, S.activeBranch)) \ {Doc})
    \cup (UNION {Subtree(S, Top(S, p.branch)) : p \in S.pending} \ {Doc})

\* parent.removeChild(b), for b.parentNode = parent
removeChild(S, b) ==
  [S EXCEPT !.children[S.parentNode[b]] = Remove(@, b), !.parentNode[b] = null]

\* ul.appendChild(li) for a detached li, ul being the list of branch p
appendChild(S, p, li) ==
  [S EXCEPT !.children[p] = Append(@, li), !.parentNode[li] = p]

\* newNode.li with newNode.input appended: a branch no one refers to yet
newNodeLi(S) == Min(Nodes \ Live(S))

\* fewer than limit <li> elements are alive
CanCreate(S, limit) == Cardinality(Live(S)) < limit

\* What a step leaves behind: elements nothing refers to any longer are
\* dropped, the pointer is not over an element that left the page, and the
\* stored prefix of a branch outside the root's tree is forgotten (nothing
\* reads it before render, which runs whenever a branch enters the tree, has
\* overwritten it).
Settle(S) ==
  LET live == Live(S)
      fresh(f, d) == [n \in DOMAIN f |-> IF n \in Nodes \ live THEN d ELSE f[n]]
  IN [S EXCEPT
        !.children = fresh(@, <<>>),
        !.hasUL = fresh(@, FALSE),
        !.parentNode = fresh(@, null),
        !.value = fresh(@, <<>>),
        !.datasetPrefix = [n \in Nodes |-> IF n \in Subtree(S, Root) THEN @[n] ELSE NoPrefix],
        !.hasListeners = fresh(@, FALSE),
        !.clickListener = fresh(@, FALSE),
        !.oldClickListeners = fresh(@, FALSE),
        !.pointer = IF @ \in Nodes /\ @ \notin InDocument(S) THEN Elsewhere
                    ELSE IF @ = Menu /\ ~S.menuActive THEN Elsewhere
                    ELSE @]

---------------------------------------------------------------------------
(* PREFIX *)

branch == <<"|", "-", "-">>
branch_last == <<"\\", "-", "-">>
spacer_branch == <<"|", " ", " ", " ">>
spacer_empty == <<" ", " ", " ", " ">>

DefaultPrefix ==
  [branch |-> branch, branch_last |-> branch_last,
   spacer_branch |-> spacer_branch, spacer_empty |-> spacer_empty]

TokenNames == {"branch", "branch_last", "spacer_branch", "spacer_empty"}

---------------------------------------------------------------------------
(* EDITOR *)

\* editor.allInputs: the inputs inside #editor, each named by its branch
allInputs(S) == InDocument(S)

\* spacers.join('')
join(spacers) == Flatten(spacers)

\* _prefix with a fault: the first item, not the last, is taken for the last one
RECURSIVE _prefix_FirstIsLast(_, _, _, _, _)
_prefix_FirstIsLast(S, activeList, depth, spacers, i) ==
  LET items == S.children[activeList]
      l == Len(items)
  IN IF i > l THEN <<>>
     ELSE LET last == (i = 1)
              activeItem == items[i]
              line == <<activeItem,
                        join(spacers) \o (IF last THEN S.prefix.branch_last
                                                  ELSE S.prefix.branch)>>
              arr == Append(spacers, IF last THEN S.prefix.spacer_empty
                                             ELSE S.prefix.spacer_branch)
              below == IF S.hasUL[activeItem]
                       THEN _prefix_FirstIsLast(S, activeItem, depth + 1, arr, 1)
                       ELSE <<>>
          IN <<line>> \o below \o _prefix_FirstIsLast(S, activeList, depth, spacers, i + 1)

\* _prefix with a fault: the two spacer tokens are exchanged
RECURSIVE _prefix_SpacersSwapped(_, _, _, _, _)
_prefix_SpacersSwapped(S, activeList, depth, spacers, i) ==
  LET items == S.children[activeList]
      l == Len(items)
  IN IF i > l THEN <<>>
     ELSE LET last == (i = l)
              activeItem == items[i]
              line == <<activeItem,
                        join(spacers) \o (IF last THEN S.prefix.branch_last
                                                  ELSE S.prefix.branch)>>
              arr == Append(spacers, IF last THEN S.prefix.spacer_branch
                                             ELSE S.prefix.spacer_empty)
              below == IF S.hasUL[activeItem]
                       THEN _prefix_SpacersSwapped(S, activeItem, depth + 1, arr, 1)
                       ELSE <<>>
          IN <<line>> \o below \o _prefix_SpacersSwapped(S, activeList, depth, spacers, i + 1)

\* _prefix with a fault: the spacer of the current level is not pushed
RECURSIVE _prefix_NoSpacer(_, _, _, _, _)
_prefix_NoSpacer(S, activeList, depth, spacers, i) ==
  LET items == S.children[activeList]
      l == Len(items)
  IN IF i > l THEN <<>>
     ELSE LET last == (i = l)
              activeItem == items[i]
              line == <<activeItem,
                        join(spacers) \o (IF last THEN S.prefix.branch_last
                                                  ELSE S.prefix.branch)>>
              arr == spacers
              below == IF S.hasUL[activeItem]
                       THEN _prefix_NoSpacer(S, activeItem, depth + 1, arr, 1)
                       ELSE <<>>
          IN <<line>> \o below \o _prefix_NoSpacer(S, activeList, depth, spacers, i + 1)

\* editor._prefix(activeList, depth, processor, spacers), from loop index i on:
\* the (item, prefix) pairs handed to processor, in call order.  activeList is
\* named by the branch that owns the list.
\* _prefix with a fault: an item whose list is empty is never taken as the last
RECURSIVE _prefix_EmptyListNotLast(_, _, _, _, _)
_prefix_EmptyListNotLast(S, activeList, depth, spacers, i) ==
  LET items == S.children[activeList]
      l == Len(items)
  IN IF i > l THEN <<>>
     ELSE LET activeItem == items[i]
              last == (i = l) /\ ~(S.hasUL[activeItem] /\ S.children[activeItem] = <<>>)
              line == <<activeItem, join(spacers) \o (IF last THEN S.prefix.branch_last
                                                      ELSE S.prefix.branch)>>
              arr == Append(spacers, IF last THEN S.prefix.spacer_empty
                                     ELSE S.prefix.spacer_branch)
              below == IF S.hasUL[activeItem]
                       THEN _prefix_EmptyListNotLast(S, activeItem, depth + 1, arr, 1)
                       ELSE <<>>
          IN <<line>> \o below
               \o _prefix_EmptyListNotLast(S, activeList, depth, spacers, i + 1)

RECURSIVE _prefix(_, _, _, _, _)
_prefix(S, activeList, depth, spacers, i) ==
  LET items == S.children[activeList]
      l == Len(items)
  IN IF i > l THEN <<>>
     ELSE LET last == (i = l)
              activeItem == items[i]
              line == <<activeItem,
                        join(spacers) \o (IF last THEN S.prefix.branch_last
                                                  ELSE S.prefix.branch)>>
              arr == Append(spacers, IF last THEN S.prefix.spacer_empty
                                             ELSE S.prefix.spacer_branch)
              below == IF S.hasUL[activeItem]
                       THEN _prefix(S, activeItem, depth + 1, arr, 1)
                       ELSE <<>>
          IN <<line>> \o below \o _prefix(S, activeList, depth, spacers, i + 1)

\* render with a fault: a prefix is added to the one the item already carries
render_Again(S) ==
  LET calls == _prefix(S, Root, 0, <<>>, 1)
      visited == {calls[k][1] : k \in 1 .. Len(calls)}
      at(n) == CHOOSE k \in 1 .. Len(calls) : calls[k][1] = n
  IN [S EXCEPT !.datasetPrefix =
        [n \in Nodes |-> IF n \notin visited THEN @[n]
                         ELSE IF @[n] = NoPrefix THEN calls[at(n)][2]
                         ELSE @[n] \o calls[at(n)][2]]]

\* editor.render: store each prefix on its item
render(S) ==
  LET calls == _prefix(S, Root, 0, <<>>, 1)
      visited == {calls[k][1] : k \in 1 .. Len(calls)}
      at(n) == CHOOSE k \in 1 .. Len(calls) : calls[k][1] = n
  IN [S EXCEPT !.datasetPrefix =
        [n \in Nodes |-> IF n \in visited THEN calls[at(n)][2] ELSE @[n]]]

\* editor._addMenuListeners(parent)
_addMenuListeners(S, parent) ==
  LET nodes == IF parent = null THEN allInputs(S) ELSE Subtree(S, parent)
  IN [S EXCEPT !.hasListeners = [n \in Nodes |-> IF n \in nodes THEN TRUE ELSE @[n]]]

\* editor._removeMenuListeners(parent)
_removeMenuListeners(S, parent) ==
  LET nodes == IF parent = null THEN allInputs(S) ELSE Subtree(S, parent)
  IN [S EXCEPT !.hasListeners = [n \in Nodes |-> IF n \in nodes THEN FALSE ELSE @[n]]]

\* editor.update
update(S) ==
  IF S.delayUpdate THEN S
  ELSE render(_addMenuListeners(S, null))

\* editor.clearTimeout
clearTimeout(S) == [S EXCEPT !.timeout = FALSE]

\* editor._hideContextMenu: a new timer; one still pending can no longer be cleared
_hideContextMenu(S) ==
  [S EXCEPT !.oldTimeouts = @ \/ S.timeout, !.timeout = TRUE]

\* editor.addSibling(branch); branch.parentNode null: TypeError at ul.appendChild
addSibling(S, b) ==
  IF S.parentNode[b] = null THEN S
  ELSE update(appendChild(S, S.parentNode[b], newNodeLi(S)))

\* addChild with a fault: the new branch is put first in the list
addChild_First(S, b) ==
  update([S EXCEPT !.hasUL[b] = TRUE,
                   !.children[b] = <<newNodeLi(S)>> \o @,
                   !.parentNode[newNodeLi(S)] = b])

\* editor.addChild(branch)
addChild(S, b) ==
  update(appendChild([S EXCEPT !.hasUL[b] = TRUE], b, newNodeLi(S)))

\* editor.moveBranch(branch)
moveBranch(S, b) ==
  _removeMenuListeners([S EXCEPT !.inMoveState = TRUE], b)

\* deleteBranch with a fault: the first branch of the list is removed
deleteBranch_First(S, b) ==
  IF S.parentNode[b] = null THEN S
  ELSE update([removeChild(S, S.children[S.parentNode[b]][1]) EXCEPT !.menuActive = FALSE])

\* editor.deleteBranch(branch); branch.parentNode null: TypeError on the first line
deleteBranch(S, b) ==
  IF S.parentNode[b] = null THEN S
  ELSE update([removeChild(S, b) EXCEPT !.menuActive = FALSE])

\* clear with a fault: the last branch of the list is left in place
RECURSIVE clear_KeepLast(_)
clear_KeepLast(S) ==
  IF Len(S.children[Root]) <= 1 THEN S
  ELSE clear_KeepLast(removeChild(S, S.children[Root][1]))

\* editor.clear
RECURSIVE clear(_)
clear(S) ==
  IF Len(S.children[Root]) = 0 THEN S
  ELSE clear(removeChild(S, S.children[Root][1]))

\* _positionContextMenu with a fault: the entries are shown for the root too
_positionContextMenu_ShowAll(S, t) ==
  [clearTimeout(S) EXCEPT !.activeBranch = t,
                          !.menuDisplay = TRUE,
                          !.menuActive = TRUE]

\* editor._positionContextMenu(target), target the input of branch t
_positionContextMenu(S, t) ==
  [clearTimeout(S) EXCEPT !.activeBranch = t,
                          !.menuDisplay = (t # Root),
                          !.menuActive = TRUE]

\* _moveBranch with a fault: the branch is put first in the destination's list
_moveBranch_First(S, dest) ==
  IF S.activeBranch = null THEN S
  ELSE IF S.parentNode[S.activeBranch] = null THEN S
  ELSE LET removed == removeChild(S, S.activeBranch)
           withUL == [removed EXCEPT !.hasUL[dest] = TRUE]
       IN IF dest \in Subtree(withUL, S.activeBranch) THEN withUL
          ELSE update([withUL EXCEPT !.children[dest] = <<S.activeBranch>> \o @,
                                     !.parentNode[S.activeBranch] = dest,
                                     !.inMoveState = FALSE])

\* editor._moveBranch({ currentTarget }), currentTarget the input of branch dest.
\* removeChild on a null parentNode throws before anything changed; appendChild
\* throws HierarchyRequestError, after the removal, when the list is inside
\* activeBranch.
_moveBranch(S, dest) ==
  IF S.activeBranch = null THEN S
  ELSE IF S.parentNode[S.activeBranch] = null THEN S
  ELSE LET removed == removeChild(S, S.activeBranch)
           withUL == [removed EXCEPT !.hasUL[dest] = TRUE]
       IN IF dest \in Subtree(withUL, S.activeBranch) THEN withUL
          ELSE update([appendChild(withUL, dest, S.activeBranch)
                         EXCEPT !.inMoveState = FALSE])

\* editor._handleBranchMouseOver({ currentTarget })
_handleBranchMouseOver(S, t) ==
  IF S.inMoveState
  THEN [S EXCEPT !.oldClickListeners[t] = @ \/ S.clickListener[t],
                 !.clickListener[t] = TRUE]
  ELSE _positionContextMenu(S, t)

\* editor._handleBranchMouseOut({ currentTarget })
_handleBranchMouseOut(S, t) ==
  IF S.inMoveState
  THEN [S EXCEPT !.clickListener[t] = FALSE]
  ELSE _hideContextMenu(S)

\* prefix._handleChange({ target })
_handleChange(S, name, text) ==
  update([S EXCEPT !.prefix[name] = text])

\* newNode.input: el.placeholder
placeholder == <<"D","i","r","e","c","t","o","r","y"," ","o","r"," ","F","i","l","e"," ","N","a","m","e">>

\* the placeholder of input#root, which the page's markup sets
rootPlaceholder == <<"R","o","o","t">>

WhiteSpace == {" ", "\n", "\t"}

\* String.prototype.trim
RECURSIVE trimStart(_)
trimStart(text) ==
  IF text # <<>> /\ Head(text) \in WhiteSpace THEN trimStart(Tail(text)) ELSE text

RECURSIVE trimEnd(_)
trimEnd(text) ==
  IF text # <<>> /\ text[Len(text)] \in WhiteSpace
  THEN trimEnd(SubSeq(text, 1, Len(text) - 1))
  ELSE text

trim(text) == trimEnd(trimStart(text))

\* a || b on strings
OrElse(a, b) == IF a # <<>> THEN a ELSE b

\* appendLines with a fault: input.value without the placeholder fallback
RECURSIVE appendLines_NoPlaceholder(_, _, _)
appendLines_NoPlaceholder(S, tree, calls) ==
  IF calls = <<>> THEN tree
  ELSE appendLines_NoPlaceholder(S,
         tree \o <<"\n">> \o Head(calls)[2] \o <<" ">> \o S.value[Head(calls)[1]],
         Tail(calls))

\* appendLines with a fault: every empty name is replaced by the root's placeholder
RECURSIVE appendLines_RootPlaceholder(_, _, _)
appendLines_RootPlaceholder(S, tree, calls) ==
  IF calls = <<>> THEN tree
  ELSE appendLines_RootPlaceholder(S,
         tree \o <<"\n">> \o Head(calls)[2] \o <<" ">>
              \o OrElse(S.value[Head(calls)[1]], rootPlaceholder),
         Tail(calls))

\* the processor of editor.toString, applied to the calls of _prefix in order
RECURSIVE appendLines(_, _, _)
appendLines(S, tree, calls) ==
  IF calls = <<>> THEN tree
  ELSE appendLines(S,
         tree \o <<"\n">> \o Head(calls)[2] \o <<" ">>
              \o OrElse(S.value[Head(calls)[1]], placeholder),
         Tail(calls))

\* toString with a fault: the text does not start with the root's name
toString_NoRoot(S) ==
  trim(appendLines(S, <<>>, _prefix(S, Root, 0, <<>>, 1)))

\* editor.toString
toString(S) ==
  trim(appendLines(S, OrElse(S.value[Root], rootPlaceholder),
                   _prefix(S, Root, 0, <<>>, 1)))

\* saveToClipboard: output.textContent = editor.toString()
saveToClipboard(S) == [S EXCEPT !.output = toString(S)]

---------------------------------------------------------------------------
(* Events.  The pointer enters and leaves one element at a time; an event  *)
(* reaches a handler only where the listener is registered.                *)

\* 'mouseover' on the name input of branch t
mouseover(S, t) ==
  LET P == [S EXCEPT !.pointer = t]
  IN Settle(IF S.hasListeners[t] THEN _handleBranchMouseOver(P, t) ELSE P)

\* 'mouseout' on the name input the pointer is over
mouseout(S) ==
  LET P == [S EXCEPT !.pointer = Elsewhere]
  IN Settle(IF S.hasListeners[S.pointer] THEN _handleBranchMouseOut(P, S.pointer) ELSE P)

\* 'click' on the name input the pointer is over: every registered
\* _moveBranch proxy runs, in the order of registration
click(S) ==
  LET t == S.pointer
      S1 == IF S.oldClickListeners[t] THEN _moveBranch(S, t) ELSE S
      S2 == IF S.clickListener[t] THEN _moveBranch(S1, t) ELSE S1
  IN Settle(S2)

\* 'mouseover' on the context menu
menuMouseover(S) == Settle(clearTimeout([S EXCEPT !.pointer = Menu]))

\* 'mouseout' on the context menu
menuMouseout(S) == Settle(_hideContextMenu([S EXCEPT !.pointer = Elsewhere]))

\* 'click' on an entry of the context menu
clickAddSibling(S) == Settle(addSibling(S, S.activeBranch))
clickAddChild(S) == Settle(addChild(S, S.activeBranch))
clickMoveBranch(S) == Settle(moveBranch(S, S.activeBranch))
clickDeleteBranch(S) == Settle(deleteBranch(S, S.activeBranch))

\* the timer editor.timeout names fires
hideTimeout(S) == Settle([S EXCEPT !.menuActive = FALSE, !.timeout = FALSE])

\* an earlier hide timer fires; more marks that others like it remain
oldHideTimeout(S, more) == Settle([S EXCEPT !.menuActive = FALSE, !.oldTimeouts = more])

\* 'click' on #clear
clickClear(S) == Settle(clear(S))

\* 'change' on the prefix field name, now holding text
prefixChange(S, name, text) == Settle(_handleChange(S, name, text))

---------------------------------------------------------------------------
(* The page after prefix.init(), editor.init(), folder.init(): the root    *)
(* branch with an empty #listEntry, its input holding the hover listeners. *)

Init ==
  /\ children = [e \in Elems |-> IF e = Doc THEN <<Root>> ELSE <<>>]
  /\ hasUL = [n \in Nodes |-> n = Root]
  /\ parentNode = [n \in Nodes |-> IF n = Root THEN Doc ELSE null]
  /\ value = [n \in Nodes |-> <<>>]
  /\ datasetPrefix = [n \in Nodes |-> NoPrefix]
  /\ hasListeners = [n \in Nodes |-> n = Root]
  /\ clickListener = [n \in Nodes |-> FALSE]
  /\ oldClickListeners = [n \in Nodes |-> FALSE]
  /\ prefix = DefaultPrefix
  /\ delayUpdate = FALSE
  /\ inMoveState = FALSE
  /\ activeBranch = null
  /\ menuActive = FALSE
  /\ menuDisplay = TRUE
  /\ timeout = FALSE
  /\ oldTimeouts = FALSE
  /\ pointer = Elsewhere
  /\ output = NoOutput
  /\ pending = {}
  /\ dropped = NoDrop
  /\ drops = 0

---------------------------------------------------------------------------
(* Spec: the controller, one mouse or timer event per step.                *)

\* the texts a user types into a prefix field
TokenTexts(name) == {DefaultPrefix[name], <<"+">>}

CustomTokens(S) == {name \in TokenNames : S.prefix[name] # DefaultPrefix[name]}

MouseOver(t) ==
  /\ pointer = Elsewhere
  /\ t \in InDocument(State)
  /\ Becomes(mouseover(State, t))

MouseOut ==
  /\ pointer \in Nodes
  /\ Becomes(mouseout(State))

ClickInput ==
  /\ pointer \in Nodes
  /\ Becomes(click(State))

MenuMouseOver ==
  /\ pointer = Elsewhere
  /\ menuActive
  /\ Becomes(menuMouseover(State))

MenuMouseOut ==
  /\ pointer = Menu
  /\ Becomes(menuMouseout(State))

ClickAddSibling ==
  /\ pointer = Menu /\ menuActive /\ menuDisplay
  /\ parentNode[activeBranch] = null \/ CanCreate(State, MaxBranches)
  /\ Becomes(clickAddSibling(State))

ClickAddChild ==
  /\ pointer = Menu /\ menuActive
  /\ CanCreate(State, MaxBranches)
  /\ Becomes(clickAddChild(State))

ClickMoveBranch ==
  /\ pointer = Menu /\ menuActive /\ menuDisplay
  /\ Becomes(clickMoveBranch(State))

ClickDeleteBranch ==
  /\ pointer = Menu /\ menuActive /\ menuDisplay
  /\ Becomes(clickDeleteBranch(State))

HideTimeout ==
  /\ timeout
  /\ Becomes(hideTimeout(State))

OldHideTimeout ==
  /\ oldTimeouts
  /\ \E more \in BOOLEAN : Becomes(oldHideTimeout(State, more))

ClickClear ==
  /\ pointer = Elsewhere
  /\ Becomes(clickClear(State))

PrefixChange(name, text) ==
  /\ text # prefix[name]
  /\ Cardinality(CustomTokens([State EXCEPT !.prefix[name] = text])) <= MaxCustomTokens
  /\ Becomes(prefixChange(State, name, text))

Next ==
  \/ \E t \in Nodes : MouseOver(t)
  \/ MouseOut
  \/ ClickInput
  \/ MenuMouseOver
  \/ MenuMouseOut
  \/ ClickAddSibling
  \/ ClickAddChild
  \/ ClickMoveBranch
  \/ ClickDeleteBranch
  \/ HideTimeout
  \/ OldHideTimeout
  \/ ClickClear
  \/ \E name \in TokenNames : \E text \in TokenTexts(name) : PrefixChange(name, text)

Spec == Init /\ [][Next]_vars

TypeOK ==
  /\ \A n \in Nodes : parentNode[n] \in Elems \cup {null}
  /\ \A n \in Nodes : parentNode[n] # null <=> \E e \in Elems : n \in Range(children[e])
  /\ \A n \in Nodes : parentNode[n] # null => n \in Range(children[parentNode[n]])
  /\ hasUL[Root]
  /\ \A n \in Nodes : children[n] # <<>> => hasUL[n]
  /\ activeBranch \in Nodes \cup {null}
  /\ pointer \in Nodes \cup {Menu, Elsewhere}
  /\ menuActive => activeBranch # null

---------------------------------------------------------------------------
(* SpecTree: the prefix algorithm as a function of the tree.  InitTree     *)
(* draws an ordered tree of at most MaxNodes branches with names on them   *)
(* (branches numbered in document order), and the steps run render and the *)
(* export on it.                                                           *)

\* the names on the branches of a drawn tree
TreeTexts == {<<>>, <<"a">>, <<" ">>}

\* the branches from j up to the root, in a tree given by its parent map
RECURSIVE PathUp(_, _)
PathUp(par, j) == IF j = Root THEN {Root} ELSE {j} \cup PathUp(par, par[j])

\* parent maps of the ordered trees of n branches numbered in pre-order
TreeShapes(n) ==
  {par \in [1 .. (n - 1) -> 0 .. (n - 2)] :
     /\ \A i \in 1 .. (n - 1) : par[i] < i
     /\ \A i \in 2 .. (n - 1) : par[i] \in PathUp(par, i - 1)}

ChildrenOf(par, n, e) ==
  IF e = Doc THEN <<Root>>
  ELSE SelectSeq([k \in 1 .. (n - 1) |-> k], LAMBDA k : par[k] = e)

InitTree ==
  \E n \in 1 .. MaxNodes :
    \E par \in TreeShapes(n) :
      \E lists \in SUBSET (1 .. (n - 1)) :
        \E names \in [0 .. (n - 1) -> TreeTexts] :
          /\ children = [e \in Elems |-> IF e = Doc \/ e < n THEN ChildrenOf(par, n, e)
                                         ELSE <<>>]
          /\ hasUL = [m \in Nodes |-> \/ m = Root
                                      \/ m < n /\ ChildrenOf(par, n, m) # <<>>
                                      \/ m \in lists]
          /\ parentNode = [m \in Nodes |-> IF m = Root THEN Doc
                                           ELSE IF m < n THEN par[m] ELSE null]
          /\ value = [m \in Nodes |-> IF m < n THEN names[m] ELSE <<>>]
          /\ datasetPrefix = [m \in Nodes |-> NoPrefix]
          /\ hasListeners = [m \in Nodes |-> m < n]
          /\ clickListener = [m \in Nodes |-> FALSE]
          /\ oldClickListeners = [m \in Nodes |-> FALSE]
          /\ prefix = DefaultPrefix
          /\ delayUpdate = FALSE
          /\ inMoveState = FALSE
          /\ activeBranch = null
          /\ menuActive = FALSE
          /\ menuDisplay = TRUE
          /\ timeout = FALSE
          /\ oldTimeouts = FALSE
          /\ pointer = Elsewhere
          /\ output = NoOutput
          /\ pending = {}
          /\ dropped = NoDrop
          /\ drops = 0

\* editor.render()
Render == Becomes(Settle(render(State)))

\* 'click' on #save
Save == Becomes(Settle(saveToClipboard(State)))

\* 'click' on #clear, before the export
ClearTree ==
  /\ output = NoOutput
  /\ Becomes(clickClear(State))

NextTree == Render \/ Save \/ ClearTree

SpecTree == InitTree /\ [][NextTree]_vars

---------------------------------------------------------------------------
(* The tree read off the state, for stating the properties.                *)

\* the non-root branches of the root's tree
Branches(S) == Subtree(S, Root) \ {Root}

\* n is the last element of its parent's child sequence
IsLast(S, n) ==
  LET siblings == S.children[S.parentNode[n]]
  IN siblings # <<>> /\ siblings[Len(siblings)] = n

\* the number of edges from the root down to n
RECURSIVE DepthOf(_, _)
DepthOf(S, n) == IF n = Root THEN 0 ELSE 1 + DepthOf(S, S.parentNode[n])

\* the connector of n, with the default tokens
ConnectorOf(S, n) == IF IsLast(S, n) THEN branch_last ELSE branch

\* one spacer segment per ancestor of n below the root, root-most first
RECURSIVE SpacersOf(_, _)
SpacersOf(S, n) ==
  LET p == S.parentNode[n]
  IN IF p = Root THEN <<>>
     ELSE SpacersOf(S, p) \o (IF IsLast(S, p) THEN spacer_empty ELSE spacer_branch)

PrefixOf(S, n) == SpacersOf(S, n) \o ConnectorOf(S, n)

\* the non-root branches in depth-first pre-order, children in sequence order
RECURSIVE PreOrderFrom(_, _, _)
PreOrderFrom(S, list, i) ==
  IF i > Len(list) THEN <<>>
  ELSE <<list[i]>> \o PreOrderFrom(S, S.children[list[i]], 1) \o PreOrderFrom(S, list, i + 1)

PreOrder(S) == PreOrderFrom(S, S.children[Root], 1)

\* what the prefix algorithm hands its visitor for the tree as it is now
Calls == _prefix(State, Root, 0, <<>>, 1)

LastThree(text) == SubSeq(text, Len(text) - 2, Len(text))

---------------------------------------------------------------------------
(* C1: the prefix algorithm visits every non-root branch once, and the     *)
(* prefix it hands over (and render stores) ends with the connector \--    *)
(* exactly when the branch is the last child of its parent, and with |--   *)
(* otherwise.                                                              *)
C1_Connector ==
  /\ Len(Calls) = Cardinality(Branches(State))
  /\ {Calls[k][1] : k \in 1 .. Len(Calls)} = Branches(State)
  /\ \A k \in 1 .. Len(Calls) :
       /\ Len(Calls[k][2]) >= 3
       /\ LastThree(Calls[k][2]) = branch_last <=> IsLast(State, Calls[k][1])
       /\ LastThree(Calls[k][2]) = branch <=> ~IsLast(State, Calls[k][1])
  /\ \A n \in Branches(State) :
       datasetPrefix[n] # NoPrefix =>
         /\ LastThree(datasetPrefix[n]) = branch_last <=> IsLast(State, n)
         /\ LastThree(datasetPrefix[n]) = branch <=> ~IsLast(State, n)

\* rendered: a nested last child beside a non-last branch
C1_Witness ==
  \E n, m \in Branches(State) :
    /\ parentNode[n] # Root /\ IsLast(State, n) /\ ~IsLast(State, m)
    /\ datasetPrefix[n] # NoPrefix /\ datasetPrefix[m] # NoPrefix
    /\ LastThree(datasetPrefix[n]) = branch_last
    /\ LastThree(datasetPrefix[m]) = branch

---------------------------------------------------------------------------
(* The export as the specification describes it: one line for the root,    *)
(* then one line per branch in pre-order.                                  *)

NameOf(S, n) == OrElse(S.value[n], IF n = Root THEN rootPlaceholder ELSE placeholder)

ExportLines(S) ==
  <<NameOf(S, Root)>> \o
  [k \in 1 .. Len(PreOrder(S)) |->
     PrefixOf(S, PreOrder(S)[k]) \o <<" ">> \o NameOf(S, PreOrder(S)[k])]

RECURSIVE JoinLines(_)
JoinLines(lines) ==
  IF Len(lines) = 1 THEN lines[1]
  ELSE lines[1] \o <<"\n">> \o JoinLines(Tail(lines))

NoTrailingSpace(text) == text = <<>> \/ text[Len(text)] \notin WhiteSpace

\* the text neither begins nor ends with whitespace: the root's name does
\* not begin with it and the name on the last line does not end with it
EdgesClean(text) == text # <<>> /\ text[1] \notin WhiteSpace /\ text[Len(text)] \notin WhiteSpace

(* C3 as stated: for every assignment of labels the export is exactly the  *)
(* root line followed by one line "<prefix> <name>" per branch in          *)
(* pre-order, and it has no trailing whitespace.                           *)
C3_AsStated ==
  output # NoOutput =>
    /\ output = JoinLines(ExportLines(State))
    /\ NoTrailingSpace(output)

(* C3, amended: the export is that text with the whitespace at its two     *)
(* ends removed; it is exactly those lines whenever the root's name does   *)
(* not begin with whitespace and the last line's name does not end with    *)
(* it; it never has trailing whitespace.                                   *)
C3_Export ==
  output # NoOutput =>
    /\ output = trim(JoinLines(ExportLines(State)))
    /\ EdgesClean(JoinLines(ExportLines(State))) => output = JoinLines(ExportLines(State))
    /\ NoTrailingSpace(output)

\* exported: three branches, one nested, named and unnamed, clean edges
C3_Witness ==
  /\ output # NoOutput
  /\ Cardinality(Branches(State)) = 3
  /\ \E n \in Branches(State) : parentNode[n] # Root
  /\ \E n \in Branches(State) : value[n] = <<>>
  /\ \E n \in Branches(State) : value[n] = <<"a">>
  /\ EdgesClean(JoinLines(ExportLines(State)))
  /\ output = JoinLines(ExportLines(State))

---------------------------------------------------------------------------
(* Re-parsing the prefixes of an export: the depth of a line is read off   *)
(* its indentation, its parent is the nearest line above that is one level *)
(* less deep, and siblings keep the order of their lines.                  *)

ExportPrefixes == [k \in 1 .. Len(Calls) |-> Calls[k][2]]

ParsedDepth(text) == ((Len(text) - 3) \div 4) + 1

\* the line of the parent of line k; 0 stands for the root's line
ParsedParent(ps, k) ==
  LET above == {j \in 1 .. (k - 1) : ParsedDepth(ps[j]) = ParsedDepth(ps[k]) - 1}
  IN IF ParsedDepth(ps[k]) = 1 \/ above = {} THEN 0
     ELSE CHOOSE j \in above : \A i \in above : i <= j

\* the connector says "last" exactly when no later line has the same parent
ParsedLast(ps, k) ==
  ~ \E j \in (k + 1) .. Len(ps) : ParsedParent(ps, j) = ParsedParent(ps, k)

\* the line of branch n in the export; 0 for the root
LineOf(n) == IF n = Root THEN 0 ELSE CHOOSE k \in 1 .. Len(Calls) : Calls[k][1] = n

\* the lines whose parsed parent is line j, in line order
ParsedChildren(ps, j) ==
  SelectSeq([k \in 1 .. Len(ps) |-> k], LAMBDA k : ParsedParent(ps, k) = j)

(* C4: the prefixes of an export determine the tree: re-parsed, they give  *)
(* every branch its parent and every child sequence its order.             *)
C4_RoundTrip ==
  LET ps == ExportPrefixes
  IN /\ \A k \in 1 .. Len(ps) :
          /\ (Len(ps[k]) - 3) % 4 = 0
          /\ ParsedParent(ps, k) = LineOf(parentNode[Calls[k][1]])
          /\ (LastThree(ps[k]) = branch_last) = ParsedLast(ps, k)
     /\ \A n \in Subtree(State, Root) :
          ParsedChildren(ps, LineOf(n)) = [i \in 1 .. Len(children[n]) |-> LineOf(children[n][i])]

\* exported: a tree whose branches sit at two depths under different parents
C4_Witness ==
  /\ output # NoOutput
  /\ \E a, b, c \in Branches(State) :
       /\ children[Root] = <<a, b>>
       /\ children[a] = <<c>>
       /\ ParsedParent(ExportPrefixes, LineOf(c)) = LineOf(a)
       /\ ParsedParent(ExportPrefixes, LineOf(b)) = 0

---------------------------------------------------------------------------
(* SpecEdit: an editing session up to its export, one edit per step.  An   *)
(* edit is what the context menu of a branch does from an idle controller: *)
(* _handleBranchMouseOver on the branch's input, then the handler of the   *)
(* clicked entry; a move also runs _moveBranch on the destination's input. *)

project == <<"p","r","o","j","e","c","t">>
src == <<"s","r","c">>
README_md == <<"R","E","A","D","M","E",".","m","d">>
index_js == <<"i","n","d","e","x",".","j","s">>

\* the name a user may type into the input of n: the names of a small
\* project, one per element in the order the elements were created
EditText(n) ==
  IF n = 0 THEN project
  ELSE IF n = 1 THEN src
  ELSE IF n = 2 THEN README_md
  ELSE IF n = 3 THEN index_js
  ELSE <<"a">>

\* the menu of n can be opened
CanHover(S, n) ==
  /\ n \in InDocument(S)
  /\ S.hasListeners[n]
  /\ ~S.inMoveState

\* the menu opened on n
hover(S, n) == Settle(_handleBranchMouseOver(S, n))

\* the edits, as the state an idle controller is taken to
addedSibling(S, n) == clickAddSibling(hover(S, n))
addedChild(S, n) == clickAddChild(hover(S, n))
deleted(S, n) == clickDeleteBranch(hover(S, n))
armed(S, n) == clickMoveBranch(hover(S, n))
moved(S, n, d) == Settle(_moveBranch(armed(S, n), d))

\* the menu of n shows the entry: the root's menu has addChild alone
CanPick(S, n) == CanHover(S, n) /\ hover(S, n).menuDisplay

CanAddSibling(S, n) == CanPick(S, n) /\ CanCreate(hover(S, n), MaxEditBranches)
CanAddChild(S, n) == CanHover(S, n) /\ CanCreate(hover(S, n), MaxEditBranches)
CanDelete(S, n) == CanPick(S, n)
\* the input of d still has its listeners once the move of n is armed
CanMove(S, n, d) ==
  /\ CanPick(S, n)
  /\ d \in InDocument(armed(S, n))
  /\ armed(S, n).hasListeners[d]

AddSibling(n) ==
  /\ output = NoOutput
  /\ CanAddSibling(State, n)
  /\ Becomes(addedSibling(State, n))

AddChild(n) ==
  /\ output = NoOutput
  /\ CanAddChild(State, n)
  /\ Becomes(addedChild(State, n))

Delete(n) ==
  /\ output = NoOutput
  /\ CanDelete(State, n)
  /\ Becomes(deleted(State, n))

\* the move armed on n, then the click on the input of d
Move(n, d) ==
  /\ output = NoOutput
  /\ CanMove(State, n, d)
  /\ Becomes(moved(State, n, d))

\* the user types into the input of n, or empties it
Rename(n, text) ==
  /\ output = NoOutput
  /\ n \in InDocument(State)
  /\ text # value[n]
  /\ Becomes(Settle([State EXCEPT !.value[n] = text]))

Clear ==
  /\ output = NoOutput
  /\ Becomes(clickClear(State))

Export ==
  /\ output = NoOutput
  /\ Save

NextEdit ==
  \/ \E n \in Nodes : AddSibling(n)
  \/ \E n \in Nodes : AddChild(n)
  \/ \E n \in Nodes : Delete(n)
  \/ \E n, d \in Nodes : Move(n, d)
  \/ \E n \in Nodes : \E text \in {<<>>, EditText(n)} : Rename(n, text)
  \/ Clear
  \/ Export

SpecEdit == Init /\ [][NextEdit]_vars

---------------------------------------------------------------------------
(* FOLDER DROP.  A dropped item is a file or a folder; a folder is a tree  *)
(* of entries numbered in listing order, entry 0 being the folder itself.  *)
(* reader.readEntries answers later, with the entries of the directory or  *)
(* with an error: pending holds the calls not answered yet.                *)

\* <li> elements alive at once before a folder is dropped
MaxDropBranches == 2
\* folder drops in one run
MaxDrops == 1

\* the folders: every entry but 0 is in a directory listed before it, files
\* hold no entries, and the directories in fails cannot be listed
FoldersOf(n, par) ==
  {[file |-> FALSE, n |-> n, parent |-> par, isFile |-> files, fails |-> fails] :
     files \in SUBSET {e \in 1 .. (n - 1) : \A k \in 1 .. (n - 1) : par[k] # e},
     fails \in SUBSET (0 .. (n - 1))}

Folders ==
  UNION {UNION {FoldersOf(n, par) : par \in TreeShapes(n)} : n \in 1 .. MaxEntries}

\* entry.isFile of the dropped item
AFile == [file |-> TRUE, n |-> 1, parent |-> <<>>, isFile |-> {0}, fails |-> {}]

\* entry.name
EntryName(e) ==
  IF e = 0 THEN <<"l", "i", "b">>
  ELSE IF e = 1 THEN <<"x">>
  ELSE IF e = 2 THEN <<"y">>
  ELSE IF e = 3 THEN <<"z">>
  ELSE <<"w">>

\* the entries readEntries hands over for directory e, in its order
Listing(fs, e) ==
  SelectSeq([k \in 1 .. (fs.n - 1) |-> k], LAMBDA k : fs.parent[k] = e)

\* _traverse with a fault: the entry's name is not written on the branch
_traverse_NoName(S, fs, e, b) ==
  [S EXCEPT !.pending = @ \cup {[fs |-> fs, entry |-> e, branch |-> b]}]

\* folder._traverse(entry, branch): the name, then the listing is asked for
_traverse(S, fs, e, b) ==
  [S EXCEPT !.value[b] = EntryName(e),
            !.pending = @ \cup {[fs |-> fs, entry |-> e, branch |-> b]}]

\* the success callback of readEntries for the entries of one directory
RECURSIVE listed(_, _, _, _)
listed(S, fs, b, entries) ==
  IF entries = <<>> THEN S
  ELSE LET item == Head(entries)
           li == newNodeLi(S)
           A == addChild(S, b)
       IN listed(IF item \in fs.isFile
                 THEN [A EXCEPT !.value[li] = EntryName(item)]
                 ELSE _traverse(A, fs, item, li),
                 fs, b, Tail(entries))

\* the error callback with a fault: the listings still awaited are given up
failed_Abort(S, p) == [S EXCEPT !.pending = {p}]

\* the error callback of readEntries: console.error
failed(S, p) == S

\* _handleDrop with a fault: a dropped file is treated as a folder
_handleDrop_NoFileCheck(S, item) ==
  update([_traverse([clear(S) EXCEPT !.delayUpdate = TRUE], item, 0, Root)
            EXCEPT !.delayUpdate = FALSE])

\* folder._handleDrop(event), item the entry of event.dataTransfer.items[0]
_handleDrop(S, item) ==
  IF item.file THEN S
  ELSE update([_traverse([clear(S) EXCEPT !.delayUpdate = TRUE], item, 0, Root)
                 EXCEPT !.delayUpdate = FALSE])

\* 'drop' on the dropzone
drop(S, item) ==
  Settle([_handleDrop(S, item) EXCEPT
            !.dropped = IF item.file THEN @ ELSE item,
            !.drops = IF item.file THEN @ ELSE @ + 1])

\* the success callback with a fault: the branch is not the one of the call
\* answered but the one of the call made last
readEntriesDone_SharedBranch(S, p) ==
  LET last == CHOOSE b \in {q.branch : q \in S.pending} :
                \A q \in S.pending : q.branch <= b
  IN Settle([listed(S, p.fs, last, Listing(p.fs, p.entry)) EXCEPT !.pending = @ \ {p}])

\* readEntries answers the call p with the entries of the directory
readEntriesDone(S, p) ==
  Settle([listed(S, p.fs, p.branch, Listing(p.fs, p.entry)) EXCEPT !.pending = @ \ {p}])

\* readEntries answers the call p with an error
readEntriesFailed(S, p) ==
  Settle([failed(S, p) EXCEPT !.pending = @ \ {p}])

---------------------------------------------------------------------------
(* SpecDrop: a page with at most a few branches, onto which files and a    *)
(* folder are dropped; the listings are answered one at a time, in any     *)
(* order.                                                                  *)

\* a child added from the menu before the folder is dropped
AddBefore(n) ==
  /\ drops = 0
  /\ CanHover(State, n)
  /\ CanCreate(hover(State, n), MaxDropBranches)
  /\ Becomes(addedChild(State, n))

DropFile == Becomes(drop(State, AFile))

DropFolder(fs) ==
  /\ drops < MaxDrops
  /\ Becomes(drop(State, fs))

\* there are elements left for the entries of the listing
CanList(S, p) ==
  Cardinality(Live(S)) + Len(Listing(p.fs, p.entry)) <= MaxEntries

ListingDone(p) ==
  /\ p \in pending
  /\ p.entry \notin p.fs.fails
  /\ CanList(State, p)
  /\ Becomes(readEntriesDone(State, p))

ListingFailed(p) ==
  /\ p \in pending
  /\ p.entry \in p.fs.fails
  /\ Becomes(readEntriesFailed(State, p))

NextDrop ==
  \/ \E n \in Nodes : AddBefore(n)
  \/ DropFile
  \/ \E fs \in Folders : DropFolder(fs)
  \/ \E p \in pending : ListingDone(p)
  \/ \E p \in pending : ListingFailed(p)

SpecDrop == Init /\ [][NextDrop]_vars

---------------------------------------------------------------------------
(* C5: in the controller, a click that asks to move the armed branch under *)
(* itself or under one of its descendants is rejected: no child list and   *)
(* no parent changes, whatever ran before while the move was armed.        *)
C5_IllegalMoveRejected ==
  [][(/\ inMoveState
      /\ activeBranch # null
      /\ pointer \in Subtree(State, activeBranch)
      /\ ClickInput)
     => (children' = children /\ parentNode' = parentNode)]_vars

---------------------------------------------------------------------------
(* C6: after any sequence of user actions the root is still in the page    *)
(* and is the only branch without a parent branch: it is never detached.   *)
C6_RootStays ==
  /\ children[Doc] = <<Root>>
  /\ parentNode[Root] = Doc
  /\ \A n \in InDocument(State) \ {Root} : parentNode[n] \in Nodes

---------------------------------------------------------------------------
(* The project of the examples: root project with the children s = src    *)
(* and r = README.md in that order, src with the single child i = index.js *)

Example(S, s, r, i) ==
  /\ S.value[Root] = project
  /\ S.children[Root] = <<s, r>>
  /\ S.value[s] = src /\ S.children[s] = <<i>>
  /\ S.value[r] = README_md /\ S.children[r] = <<>>
  /\ S.value[i] = index_js /\ S.children[i] = <<>>

\* every branch of the tree carries the prefix its place in the tree gives it
PrefixesDerived(S) ==
  \A m \in Branches(S) : S.datasetPrefix[m] = PrefixOf(S, m)

(* C7: a move of n to a destination d outside n's subtree makes n the last *)
(* child of d and takes it out of its old list; every other list of the    *)
(* tree, inside n's subtree or not, and every other parent stay as they    *)
(* were, and the prefixes are those of the new tree.  In the example,      *)
(* moving README.md under src leaves src the only child of the root with   *)
(* prefix \-- and README.md the last child of src with connector \--.      *)
C7_Move ==
  \A n, d \in Nodes :
    (CanMove(State, n, d) /\ d \notin Subtree(State, n)) =>
      LET T == moved(State, n, d)
      IN /\ T.parentNode[n] = d
         /\ T.children[d] = Append(Remove(children[d], n), n)
         /\ \A e \in Subtree(State, Root) \ {d} : T.children[e] = Remove(children[e], n)
         /\ \A m \in Subtree(State, Root) \ {n} : T.parentNode[m] = parentNode[m]
         /\ Subtree(T, Root) = Subtree(State, Root)
         /\ Subtree(T, n) = Subtree(State, n)
         /\ PrefixesDerived(T)
         /\ ~T.inMoveState
         /\ \A i \in Nodes :
              Example(State, d, n, i) =>
                /\ T.children[Root] = <<d>>
                /\ T.datasetPrefix[d] = <<"\\", "-", "-">>
                /\ T.children[d] = <<i, n>>
                /\ LastThree(T.datasetPrefix[n]) = <<"\\", "-", "-">>

\* README.md has just been moved under src
C7_Witness ==
  \E s, r, i \in Nodes :
    /\ activeBranch = r /\ ~inMoveState
    /\ value[Root] = project /\ children[Root] = <<s>>
    /\ value[s] = src /\ children[s] = <<i, r>>
    /\ value[r] = README_md /\ value[i] = index_js
    /\ datasetPrefix[s] = <<"\\", "-", "-">>
    /\ LastThree(datasetPrefix[r]) = <<"\\", "-", "-">>

---------------------------------------------------------------------------
\* the export of the example after src is deleted
C8_Expected == project \o <<"\n", "\\", "-", "-", " ">> \o README_md

(* C8: deleting a branch n takes exactly n and the branches beneath it out *)
(* of the tree; every other branch keeps its parent and every list keeps   *)
(* its order, and the prefixes and the export are those of the new tree.   *)
(* In the example, deleting src and exporting gives project and then       *)
(* \-- README.md.                                                          *)
C8_Delete ==
  \A n \in Nodes \ {Root} :
    CanDelete(State, n) =>
      LET T == deleted(State, n)
      IN /\ Subtree(T, Root) = Subtree(State, Root) \ Subtree(State, n)
         /\ \A e \in Subtree(T, Root) : T.children[e] = Remove(children[e], n)
         /\ \A m \in Branches(T) : T.parentNode[m] = parentNode[m]
         /\ PrefixesDerived(T)
         /\ toString(T) = trim(JoinLines(ExportLines(T)))
         /\ \A r, i \in Nodes :
              Example(State, n, r, i) => toString(T) = C8_Expected

\* src, with index.js beneath it, has just been deleted and the rest exported
C8_Witness ==
  \E r, i \in Nodes :
    /\ activeBranch \in Nodes
    /\ parentNode[activeBranch] = null
    /\ value[activeBranch] = src /\ children[activeBranch] = <<i>>
    /\ value[i] = index_js
    /\ value[Root] = project /\ children[Root] = <<r>>
    /\ value[r] = README_md
    /\ output = C8_Expected

---------------------------------------------------------------------------
\* the export of the example
C9_Expected ==
  project \o <<"\n", "|", "-", "-", " ">> \o src
          \o <<"\n", "|", " ", " ", " ", "\\", "-", "-", " ">> \o index_js
          \o <<"\n", "\\", "-", "-", " ">> \o README_md

(* C9: the example project, built with the add operations and typed        *)
(* names, exports as the four lines project, |-- src, |   \-- index.js,    *)
(* \-- README.md.                                                          *)
C9_ExampleExport ==
  \A s, r, i \in Nodes :
    (Example(State, s, r, i) /\ output # NoOutput) => output = C9_Expected

\* the example project has been built and exported
C9_Witness ==
  /\ output # NoOutput
  /\ \E s, r, i \in Nodes : Example(State, s, r, i)

---------------------------------------------------------------------------
\* in T one branch k, new and with an empty name and no branch beneath it,
\* is the last child of p, and the rest of the tree is as it was in S
Added(S, T, p) ==
  \E k \in Nodes \ Subtree(S, Root) :
    /\ T.children[p] = Append(S.children[p], k)
    /\ T.parentNode[k] = p
    /\ T.value[k] = <<>> /\ T.children[k] = <<>>
    /\ Subtree(T, Root) = Subtree(S, Root) \cup {k}
    /\ \A e \in Subtree(S, Root) \ {p} : T.children[e] = S.children[e]
    /\ \A m \in Subtree(S, Root) :
         T.parentNode[m] = S.parentNode[m] /\ T.value[m] = S.value[m]

(* C10: addSibling(n) for a branch n other than the root and addChild(n)   *)
(* for any n, with or without a list of its own, create exactly one branch *)
(* with an empty name and make it the last child of n's parent and of n;   *)
(* every other branch keeps its parent and its place among its siblings.   *)
C10_Add ==
  \A n \in Nodes :
    /\ (CanAddSibling(State, n) /\ n # Root) =>
         Added(State, addedSibling(State, n), parentNode[n])
    /\ CanAddChild(State, n) => Added(State, addedChild(State, n), n)

\* a child has just been added to a branch that had children, the root apart
C10_Witness ==
  \E k \in Nodes :
    /\ activeBranch \in Nodes \ {Root}
    /\ parentNode[activeBranch] # null
    /\ Len(children[activeBranch]) >= 2
    /\ children[activeBranch][Len(children[activeBranch])] = k
    /\ value[k] = <<>> /\ children[k] = <<>>

---------------------------------------------------------------------------
(* C11 as stated: clear leaves the root alone in the tree, with its name   *)
(* and its place in the page, and the export right after it is the one     *)
(* line holding the root's name or placeholder.                            *)
C11_AsStated ==
  [][ClearTree =>
       /\ Subtree(State', Root) = {Root}
       /\ parentNode'[Root] = parentNode[Root]
       /\ value'[Root] = value[Root]
       /\ toString(State') = NameOf(State, Root)]_vars

(* C11, amended: clear leaves the root alone in the tree, with its name    *)
(* and its place in the page; the export right after it is the root's name *)
(* or placeholder with the whitespace at its two ends removed, which is    *)
(* that one line whenever the name neither begins nor ends with whitespace *)
C11_Clear ==
  [][ClearTree =>
       /\ Subtree(State', Root) = {Root}
       /\ parentNode'[Root] = parentNode[Root]
       /\ value'[Root] = value[Root]
       /\ toString(State') = trim(NameOf(State, Root))
       /\ EdgesClean(NameOf(State, Root)) => toString(State') = NameOf(State, Root)]_vars

\* a named root, cleared of its branches and exported
C11_Witness ==
  /\ children[Root] = <<>>
  /\ \A n \in Nodes \ {Root} : parentNode[n] = null
  /\ value[Root] = <<"a">>
  /\ output = <<"a">>

---------------------------------------------------------------------------
(* C12: running the prefix algorithm again on an unmodified tree gives the *)
(* same prefix for every branch: render after render stores what is        *)
(* stored, the export after a render or after an export is the same text,  *)
(* and render changes nothing but the stored prefixes, the export nothing  *)
(* but the output: structure and names stay as they are.                   *)
C12_Idempotent ==
  LET R == render(State)
      E == saveToClipboard(State)
  IN /\ render(R) = R
     /\ _prefix(R, Root, 0, <<>>, 1) = Calls
     /\ _prefix(E, Root, 0, <<>>, 1) = Calls
     /\ \A k \in 1 .. Len(Calls) : R.datasetPrefix[Calls[k][1]] = Calls[k][2]
     /\ saveToClipboard(E) = E
     /\ toString(R) = toString(State)
     /\ saveToClipboard(R).output = E.output
     /\ [R EXCEPT !.datasetPrefix = datasetPrefix] = State
     /\ [E EXCEPT !.output = output] = State

\* rendered and exported: three branches, one nested, each with its prefix
C12_Witness ==
  /\ output # NoOutput
  /\ Cardinality(Branches(State)) = 3
  /\ \E n \in Branches(State) : parentNode[n] # Root
  /\ \A n \in Branches(State) : datasetPrefix[n] # NoPrefix
  /\ render(State) = State

---------------------------------------------------------------------------
(* C13: during a folder drop the flag delayUpdate stays set for the whole  *)
(* traversal: as long as a listing is awaited the flag is set and no       *)
(* branch the callbacks have inserted has been given a prefix by render.   *)
C13_SuspendedWhileListing ==
  pending # {} =>
    /\ delayUpdate
    /\ \A n \in Branches(State) : datasetPrefix[n] = NoPrefix

---------------------------------------------------------------------------
\* the tree under branch b is the folder under entry e: the names, one
\* branch per listed entry in the order of the listing, nothing under a file
\* or under a directory that could not be listed
RECURSIVE Mirrors(_, _, _, _)
Mirrors(S, fs, e, b) ==
  /\ S.value[b] = EntryName(e)
  /\ IF e \in fs.isFile \/ e \in fs.fails THEN S.children[b] = <<>>
     ELSE /\ Len(S.children[b]) = Len(Listing(fs, e))
          /\ \A i \in 1 .. Len(S.children[b]) :
               /\ S.parentNode[S.children[b][i]] = b
               /\ Mirrors(S, fs, Listing(fs, e)[i], S.children[b][i])

(* C14: when the listing of a directory fails, nothing is added beneath    *)
(* its branch (which, after a single drop, has no children at all) and     *)
(* nothing already in the tree changes; the other listings                 *)
(* are still awaited and answered, so that in the end the tree holds the   *)
(* folder without what lies under the failed directories; a child can be   *)
(* added to any branch afterwards.                                         *)
C14_ListingFails ==
  /\ \A p \in pending :
       p.entry \in p.fs.fails =>
         LET T == readEntriesFailed(State, p)
         IN /\ \A e \in Subtree(State, Root) :
                 /\ T.children[e] = children[e]
                 /\ T.parentNode[e] = parentNode[e]
                 /\ T.value[e] = value[e]
            /\ T.children[Doc] = children[Doc]
            /\ drops = 1 => T.children[p.branch] = <<>>
            /\ T.pending = pending \ {p}
            /\ \A n \in InDocument(T) :
                 CanAddChild(T, n) => Added(T, addedChild(T, n), n)
  /\ (drops = 1 /\ pending = {} /\ dropped.fails # {}) =>
       Mirrors(State, dropped, 0, Root)

\* a folder of two directories, the first of which could not be listed, has
\* been ingested
C14_Witness ==
  /\ drops = 1 /\ pending = {}
  /\ dropped.n = 3 /\ dropped.fails = {1} /\ dropped.isFile = {}
  /\ Len(children[Root]) = 2

---------------------------------------------------------------------------
(* C15: dropping a single file changes nothing: the tree, the names, the   *)
(* flag delayUpdate and the listings awaited are as before the drop.       *)
C15_FileDrop ==
  /\ _handleDrop(State, AFile) = State
  /\ drop(State, AFile) = State

\* a page with branches and a listing awaited, onto which a file can be dropped
C15_Witness ==
  /\ pending # {}
  /\ Branches(State) # {}
  /\ ENABLED DropFile

---------------------------------------------------------------------------
(* C16: after one folder drop whose listings all succeed, once every       *)
(* callback has run, the root carries the folder's name and the tree holds *)
(* exactly one branch per listed entry, with the entry's name, under the   *)
(* branch of the directory that listed it; what was under the root before  *)
(* is gone.                                                                *)
C16_Mirror ==
  (drops = 1 /\ pending = {} /\ dropped.fails = {}) =>
    /\ Mirrors(State, dropped, 0, Root)
    /\ Cardinality(Subtree(State, Root)) = dropped.n
    /\ value[Root] = EntryName(0)

\* a folder holding a directory with a file in it has been ingested
C16_Witness ==
  /\ drops = 1 /\ pending = {}
  /\ dropped.n = 3 /\ dropped.fails = {} /\ dropped.isFile = {2}
  /\ dropped.parent[2] = 1
  /\ \E d, f \in Nodes : children[Root] = <<d>> /\ children[d] = <<f>>

---------------------------------------------------------------------------
(* C17: whenever the menu is shown with its addSibling, moveBranch and     *)
(* deleteBranch entries displayed, the active branch is a branch other     *)
(* than the root, so that a click on one of them never hands the root to   *)
(* addSibling, moveBranch or deleteBranch.                                 *)
C17_RootGuarded ==
  /\ (menuActive /\ menuDisplay) => activeBranch \in Nodes \ {Root}
  /\ (menuActive /\ activeBranch = Root) => ~menuDisplay

\* the pointer is on the menu of the root, and a branch exists whose menu
\* would show the three entries
C17_Witness ==
  /\ pointer = Menu /\ menuActive
  /\ activeBranch = Root /\ ~menuDisplay
  /\ Branches(State) # {}

---------------------------------------------------------------------------
(* C19: whenever auto re-render is not suspended, every branch of the tree *)
(* carries the prefix the algorithm computes for the tree as it is now.    *)
C19_PrefixesCurrent ==
  ~delayUpdate =>
    \A k \in 1 .. Len(Calls) : datasetPrefix[Calls[k][1]] = Calls[k][2]

---------------------------------------------------------------------------
\* the lines of a text, cut at its line feeds
RECURSIVE SplitFrom(_, _, _)
SplitFrom(text, i, line) ==
  IF i > Len(text) THEN <<line>>
  ELSE IF text[i] = "\n" THEN <<line>> \o SplitFrom(text, i + 1, <<>>)
  ELSE SplitFrom(text, i + 1, Append(line, text[i]))

SplitLines(text) == SplitFrom(text, 1, <<>>)

\* the name token of branch n: its name, or the placeholder of its input
TokenOf(n) ==
  IF value[n] # <<>> THEN value[n]
  ELSE IF n = Root THEN <<"R", "o", "o", "t">>
  ELSE <<"D","i","r","e","c","t","o","r","y"," ","o","r"," ","F","i","l","e"," ","N","a","m","e">>

\* the line of the k-th element of the tree, the root being the first
TokenLine(k) ==
  IF k = 1 THEN TokenOf(Root)
  ELSE Calls[k - 1][2] \o <<" ">> \o TokenOf(Calls[k - 1][1])

\* the text editor.toString builds, before it is trimmed
Untrimmed == appendLines(State, OrElse(value[Root], rootPlaceholder), Calls)

(* C18 as stated: every line of the export, the root's included, ends with *)
(* the name token of its branch: the name when there is one, the           *)
(* placeholder otherwise.                                                  *)
C18_AsStated ==
  output # NoOutput =>
    /\ Len(SplitLines(output)) = 1 + Len(Calls)
    /\ \A k \in 1 .. (1 + Len(Calls)) : SplitLines(output)[k] = TokenLine(k)

(* C18, amended: the text toString builds has one line per element ending  *)
(* with its name token, the name when there is one and the placeholder     *)
(* otherwise; the export is that text trimmed, so its lines are those      *)
(* lines whenever the root's name does not begin with whitespace and the   *)
(* name on the last line does not end with it.                             *)
C18_Names ==
  output # NoOutput =>
    /\ Len(SplitLines(Untrimmed)) = 1 + Len(Calls)
    /\ \A k \in 1 .. (1 + Len(Calls)) : SplitLines(Untrimmed)[k] = TokenLine(k)
    /\ output = trim(Untrimmed)
    /\ (/\ Head(TokenOf(Root)) \notin WhiteSpace
        /\ LET last == TokenLine(1 + Len(Calls))
           IN last[Len(last)] \notin WhiteSpace)
       => SplitLines(output) = SplitLines(Untrimmed)

\* exported: a root and a branch without a name, another branch with one
C18_Witness ==
  /\ output # NoOutput
  /\ value[Root] = <<>>
  /\ \E n, m \in Branches(State) : value[n] = <<>> /\ value[m] = <<"a">>
  /\ SplitLines(output) = SplitLines(Untrimmed)

---------------------------------------------------------------------------
\* the prefixes and the export of S, and those of S with the list of n dropped
SameWithoutList(S, n) ==
  /\ _prefix(S, Root, 0, <<>>, 1) = _prefix([S EXCEPT !.hasUL[n] = FALSE], Root, 0, <<>>, 1)
  /\ toString(S) = toString([S EXCEPT !.hasUL[n] = FALSE])
  /\ render(S).datasetPrefix = render([S EXCEPT !.hasUL[n] = FALSE]).datasetPrefix

(* C20: a branch whose list exists but is empty is treated as a branch     *)
(* that never had one.  addChild(n) followed by the deletion of the new    *)
(* child leaves n with an empty list and gives every branch the prefix it  *)
(* had and the export the text it had; after the only child of n is moved  *)
(* elsewhere, prefixes and export are those of the tree with no list on n. *)
C20_EmptyList ==
  /\ \A n \in Nodes :
       CanAddChild(State, n) =>
         LET A == addedChild(State, n)
             D == deleted(A, A.children[n][Len(A.children[n])])
         IN /\ D.hasUL[n]
            /\ \A e \in Subtree(State, Root) : D.children[e] = children[e]
            /\ _prefix(D, Root, 0, <<>>, 1) = Calls
            /\ \A m \in Branches(State) : D.datasetPrefix[m] = datasetPrefix[m]
            /\ toString(D) = toString(State)
            /\ children[n] = <<>> => SameWithoutList(D, n)
  /\ \A c, d \in Nodes :
       (/\ CanMove(State, c, d)
        /\ parentNode[c] \in Nodes \ {Root, d}
        /\ children[parentNode[c]] = <<c>>) =>
         LET T == moved(State, c, d)
         IN /\ T.hasUL[parentNode[c]] /\ T.children[parentNode[c]] = <<>>
            /\ SameWithoutList(T, parentNode[c])

\* the only child of a branch has just been deleted: its list is empty
C20_Witness ==
  \E n \in Branches(State) :
    /\ hasUL[n] /\ children[n] = <<>>
    /\ activeBranch \in Nodes /\ parentNode[activeBranch] = null
    /\ IsLast(State, n) /\ Len(children[Root]) >= 2

---------------------------------------------------------------------------
\* the pointer leaves whatever it is over
leave(S) ==
  IF S.pointer \in Nodes THEN mouseout(S)
  ELSE IF S.pointer = Menu THEN menuMouseout(S)
  ELSE S

\* the pointer goes to the name input of branch d and clicks it
hoverAndClick(S, d) == click(mouseover(leave(S), d))

\* move mode is armed on a branch that has left its list: removeChild in
\* _moveBranch throws on every click, and nothing else clears inMoveState or
\* sets activeBranch while inMoveState holds
Stuck(S) ==
  /\ S.inMoveState
  /\ S.activeBranch # null
  /\ S.parentNode[S.activeBranch] = null

\* once move mode is stuck it stays stuck, whatever the user does
StuckStays == [][Stuck(State) => Stuck(State')]_vars

(* C21: in every state in which move mode is armed, hovering and clicking  *)
(* a branch of the page outside the moving subtree puts the armed branch   *)
(* under that branch and ends move mode; move mode is never stuck.         *)
C21_MoveModeTransient ==
  inMoveState =>
    /\ ~Stuck(State)
    /\ \A d \in InDocument(State) \ Subtree(State, activeBranch) :
         LET T == hoverAndClick(State, d)
         IN /\ ~T.inMoveState
            /\ T.parentNode[activeBranch] = d

---------------------------------------------------------------------------
(* C22: while move mode is not armed no name input of the page carries a   *)
(* re-parenting click listener, and a click on the name input under the    *)
(* pointer (the root's included) leaves every child list and every parent  *)
(* as it was.                                                              *)
C22_IdleClickInert ==
  ~inMoveState =>
    /\ \A n \in InDocument(State) : ~clickListener[n] /\ ~oldClickListeners[n]
    /\ pointer \in Nodes =>
         LET T == click(State)
         IN \A e \in InDocument(State) \cup {Doc} :
              /\ T.children[e] = children[e]
              /\ e # Doc => T.parentNode[e] = parentNode[e]

---------------------------------------------------------------------------
\* the listings awaited in S answered one after the other, the one of the
\* entry listed first before the others
RECURSIVE ingest(_)
ingest(S) ==
  IF S.pending = {} THEN S
  ELSE ingest(readEntriesDone(S, CHOOSE p \in S.pending :
                                   \A q \in S.pending : p.entry <= q.entry))

(* C23: after one folder drop whose listings all succeed, in whatever      *)
(* order the listings were answered, the children of every directory's     *)
(* branch are the entries of its listing in the listing's order, and the   *)
(* export is the one obtained when the same folder is dropped and its      *)
(* listings are answered in the order of the entries.                      *)
C23_OrderIndependent ==
  (drops = 1 /\ pending = {} /\ dropped.fails = {}) =>
    /\ Mirrors(State, dropped, 0, Root)
    /\ toString(State) = toString(ingest(drop(State, dropped)))

\* a folder of two directories with one entry each has been ingested, the
\* listing of the second directory having been answered before the first's
C23_Witness ==
  /\ drops = 1 /\ pending = {}
  /\ dropped.n = 5 /\ dropped.parent = <<0, 1, 0, 3>> /\ dropped.fails = {}
  /\ children[Root] = <<1, 2>>
  /\ children[1] = <<4>> /\ children[2] = <<3>>
  /\ value[4] = EntryName(2) /\ value[3] = EntryName(4)

====
